---------------------------- MODULE Spec2Model ----------------------------
(***************************************************************************)
(* A model of script.js, the client-side image converter: the loader       *)
(* (loadFile, the FileReader and the preview image's decode), the reset    *)
(* button, and the convert button's click handler with its callbacks       *)
(* (drawImage, the temporary image, canvas.toBlob, triggerDownload).       *)
(*                                                                         *)
(* Every handler of the page runs to completion on the one event loop, so  *)
(* each handler or callback is one action.  Strings the code parses or     *)
(* rewrites (the quality and width fields, file names) are sequences of    *)
(* one-character strings; numbers the code computes in floating point are  *)
(* computed here bit by bit as IEEE 754 doubles.                           *)
(***************************************************************************)
EXTENDS Integers, Sequences, FiniteSets, TLC

(***************************************************************************)
(* Bounds of the model.                                                    *)
(***************************************************************************)
\* longest text typed into the quality field
MaxQualityLen == 3
\* longest text typed into the width field
MaxWidthLen == 2
\* longest file name
MaxNameLen == 4
\* largest natural width / height of an image in the exhaustive check of the
\* dimension resolution
MaxNatW == 22
MaxNatH == 15
\* user events (a file chosen or dropped, a click on Reset, a click on
\* Convert) in one run of the page
MaxEvents == 4

(***************************************************************************)
(* Text.                                                                   *)
(***************************************************************************)
RECURSIVE SeqsUpTo(_, _)
SeqsUpTo(S, n) ==
  IF n = 0 THEN {<<>>}
  ELSE LET shorter == SeqsUpTo(S, n - 1)
       IN  shorter \cup {Append(s, c) : s \in {t \in shorter : Len(t) = n - 1}, c \in S}

DigitVal ==
  ("0" :> 0) @@ ("1" :> 1) @@ ("2" :> 2) @@ ("3" :> 3) @@ ("4" :> 4) @@
  ("5" :> 5) @@ ("6" :> 6) @@ ("7" :> 7) @@ ("8" :> 8) @@ ("9" :> 9)

IsDigit(c) == c \in DOMAIN DigitVal

\* A JavaScript number as far as the handler needs it: NaN or an integer.
NaN == [nan |-> TRUE, val |-> 0]
Num(n) == [nan |-> FALSE, val |-> n]

RECURSIVE SkipSpaces(_)
SkipSpaces(s) ==
  IF s # <<>> /\ Head(s) = " " THEN SkipSpaces(Tail(s)) ELSE s

\* the value of the longest prefix of s made of decimal digits, and how many
\* digits that prefix has
RECURSIVE DigitsPrefix(_, _, _)
DigitsPrefix(s, acc, n) ==
  IF s # <<>> /\ IsDigit(Head(s))
  THEN DigitsPrefix(Tail(s), 10 * acc + DigitVal[Head(s)], n + 1)
  ELSE [val |-> acc, count |-> n]

\* parseInt(text, 10): leading white space is skipped, one sign is read, then
\* the digits up to the first character that is not a digit; NaN when there
\* is no digit.
parseInt(text) ==
  LET s    == SkipSpaces(text)
      neg  == s # <<>> /\ Head(s) = "-"
      body == IF s # <<>> /\ Head(s) \in {"-", "+"} THEN Tail(s) ELSE s
      d    == DigitsPrefix(body, 0, 0)
  IN  IF d.count = 0 THEN NaN
      ELSE Num(IF neg THEN 0 - d.val ELSE d.val)

(***************************************************************************)
(* Quality normalisation.                                                  *)
(***************************************************************************)
QualityDefault == 90
QualityMin == 1
QualityMax == 100

\* let quality = parseInt(qualityInput.value, 10);
\* if (isNaN(quality) || quality < 1) quality = 90;
\* if (quality > 100) quality = 100;
NormalizeQuality(text) ==
  LET q  == parseInt(text)
      q1 == IF q.nan \/ q.val < QualityMin THEN QualityDefault ELSE q.val
  IN  IF q1 > QualityMax THEN QualityMax ELSE q1

Max(a, b) == IF a >= b THEN a ELSE b
Min(a, b) == IF a <= b THEN a ELSE b

\* const blobQuality = Math.max(1, Math.min(100, quality)) / 100;
\* the value is kept as the number of hundredths
blobQuality(quality) == Max(QualityMin, Min(QualityMax, quality))


(***************************************************************************)
(* IEEE 754 double arithmetic on positive numbers, as the dimension        *)
(* resolution uses it.  A double is [m, e]: m the 53 bits of its           *)
(* significand, most significant first (m[1] = 1), and e the exponent of   *)
(* the last bit, so that its value is BitsVal(m) * 2^e.                    *)
(***************************************************************************)
SignificandBits == 53

RECURSIVE BitsVal(_)
BitsVal(bits) ==
  IF bits = <<>> THEN 0
  ELSE 2 * BitsVal(SubSeq(bits, 1, Len(bits) - 1)) + bits[Len(bits)]

RECURSIVE ToBits(_)
ToBits(n) == IF n = 0 THEN <<>> ELSE ToBits(n \div 2) \o <<n % 2>>

\* the n low bits of v
FixedBits(v, n) == [i \in 1..n |-> (v \div (2 ^ (n - i))) % 2]

\* bits + 1, one bit longer when every bit was 1
IncBits(bits) ==
  LET zeros == {i \in 1..Len(bits) : bits[i] = 0}
      j     == IF zeros = {} THEN 0 ELSE CHOOSE i \in zeros : \A k \in zeros : k <= i
  IN  [i \in 1..(IF j = 0 THEN Len(bits) + 1 ELSE Len(bits)) |->
         IF j = 0 THEN (IF i = 1 THEN 1 ELSE 0)
         ELSE IF i < j THEN bits[i] ELSE IF i = j THEN 1 ELSE 0]

\* Round to nearest, ties to even: keep holds the 53 leading bits of the
\* exact result and e the exponent of its last bit; rest is -1, 0 or 1 as
\* the part cut off is below, at or above half a unit of that last bit.
RoundNearestEven(keep, e, rest) ==
  LET up == rest = 1 \/ (rest = 0 /\ keep[Len(keep)] = 1)
      m  == IF up THEN IncBits(keep) ELSE keep
  IN  IF Len(m) > SignificandBits
      THEN [m |-> SubSeq(m, 1, SignificandBits), e |-> e + 1]
      ELSE [m |-> m, e |-> e]

\* n, d and g with d <= n < 2d and a/b = (n/d) * 2^g
RECURSIVE Normalise(_, _, _)
Normalise(n, d, g) ==
  IF n < d THEN Normalise(2 * n, d, g - 1)
  ELSE IF n >= 2 * d THEN Normalise(n, 2 * d, g + 1)
  ELSE [n |-> n, d |-> d, g |-> g]

\* 2^k modulo m, twenty doublings at a time
RECURSIVE Pow2Mod(_, _)
Pow2Mod(k, m) ==
  IF k <= 20 THEN (2 ^ k) % m
  ELSE (Pow2Mod(k - 20, m) * ((2 ^ 20) % m)) % m

\* bit k of the quotient n/d (d <= n < 2d), bit 0 being the leading 1: the
\* parity of floor(n * 2^k / d)
QuotientBit(n, d, k) == (((n % (2 * d)) * Pow2Mod(k, 2 * d)) % (2 * d)) \div d

\* what is left of n * 2^k after floor(n * 2^k / d) times d
QuotientRem(n, d, k) == ((n % d) * Pow2Mod(k, d)) % d

\* a / b for integers a, b >= 1
fdiv(a, b) ==
  LET nd   == Normalise(a, b, 0)
      m    == [i \in 1..SignificandBits |-> QuotientBit(nd.n, nd.d, i - 1)]
      rem  == QuotientRem(nd.n, nd.d, SignificandBits - 1)
      rest == IF 2 * rem > nd.d THEN 1 ELSE IF 2 * rem = nd.d THEN 0 ELSE -1
  IN  RoundNearestEven(m, nd.g - (SignificandBits - 1), rest)

\* the bits of BitsVal(bits) * w + carry, ten bits of bits at a time from
\* the right
RECURSIVE MulBits(_, _, _)
MulBits(bits, w, carry) ==
  IF bits = <<>> THEN ToBits(carry)
  ELSE LET n == IF Len(bits) < 10 THEN Len(bits) ELSE 10
           t == BitsVal(SubSeq(bits, Len(bits) - n + 1, Len(bits))) * w + carry
       IN  MulBits(SubSeq(bits, 1, Len(bits) - n), w, t \div (2 ^ n))
             \o FixedBits(t % (2 ^ n), n)

\* x * w for a double x and an integer w >= 1
fmul(x, w) ==
  LET p    == MulBits(x.m, w, 0)
      cut  == SubSeq(p, SignificandBits + 1, Len(p))
      rest == IF cut = <<>> \/ cut[1] = 0 THEN -1
              ELSE IF \E i \in 2..Len(cut) : cut[i] = 1 THEN 1 ELSE 0
  IN  RoundNearestEven(SubSeq(p, 1, SignificandBits), x.e + Len(cut), rest)

\* Math.round(x): the nearest integer, a tie going to the larger one.  Of the
\* significand the first 53 + e bits are the integer part and the next bit
\* counts one half.
MathRound(x) ==
  LET ni == SignificandBits + x.e
  IN  IF x.e >= 0 THEN BitsVal(x.m) * (2 ^ x.e)
      ELSE IF ni < 0 THEN 0
      ELSE BitsVal(SubSeq(x.m, 1, ni)) + x.m[ni + 1]

(***************************************************************************)
(* Dimension resolution.                                                   *)
(***************************************************************************)
\* const requestedWidth = parseInt(widthInput.value, 10) || null;
\* null is kept as 0: the code tests requestedWidth for truth first
requestedWidth(text) ==
  LET r == parseInt(text) IN IF r.nan THEN 0 ELSE r.val

\* a variant that leaves out "requestedWidth < naturalW"
TargetDimsUpscaling(text, naturalW, naturalH) ==
  LET rw == requestedWidth(text)
  IN  IF rw # 0 /\ rw > 0
      THEN [w |-> rw, h |-> MathRound(fmul(fdiv(naturalH, naturalW), rw))]
      ELSE [w |-> naturalW, h |-> naturalH]

\* let targetWidth = naturalW; let targetHeight = naturalH;
\* if (requestedWidth && requestedWidth > 0 && requestedWidth < naturalW) {
\*   targetWidth = requestedWidth;
\*   targetHeight = Math.round((naturalH / naturalW) * targetWidth); }
TargetDims(text, naturalW, naturalH) ==
  LET rw == requestedWidth(text)
  IN  IF rw # 0 /\ rw > 0 /\ rw < naturalW
      THEN [w |-> rw, h |-> MathRound(fmul(fdiv(naturalH, naturalW), rw))]
      ELSE [w |-> naturalW, h |-> naturalH]

(***************************************************************************)
(* File name derivation.                                                   *)
(***************************************************************************)
\* function mimeToExt(mime)
mimeToExt(mime) ==
  CASE mime = "image/jpeg" -> <<"j", "p", "g">>
    [] mime = "image/png"  -> <<"p", "n", "g">>
    [] mime = "image/webp" -> <<"w", "e", "b", "p">>
    [] OTHER               -> <<"i", "m", "g">>

\* name.replace(/\.[^/.]+$/, ''): the match is the first position holding a
\* '.' that is followed, up to the end of the name, by one or more characters
\* none of which is '/' or '.'; the name is cut there, or kept when nothing
\* matches.
MatchesAt(name, i) ==
  /\ name[i] = "."
  /\ i < Len(name)
  /\ \A j \in (i + 1)..Len(name) : name[j] \notin {"/", "."}

\* a variant whose pattern is /\..*$/: the name is cut at its first '.'
StripExtFirstDot(name) ==
  LET dots == {i \in 1..Len(name) : name[i] = "."}
  IN  IF dots = {} THEN name
      ELSE SubSeq(name, 1, (CHOOSE i \in dots : \A j \in dots : i <= j) - 1)

StripExt(name) ==
  LET hits == {i \in 1..Len(name) : MatchesAt(name, i)}
  IN  IF hits = {} THEN name
      ELSE SubSeq(name, 1, (CHOOSE i \in hits : \A j \in hits : i <= j) - 1)

FallbackBase == <<"c", "o", "n", "v", "e", "r", "t", "e", "d", "-", "i", "m", "a", "g", "e">>

\* const baseName = (currentFile && currentFile.name)
\*     ? currentFile.name.replace(/\.[^/.]+$/, '') : 'converted-image';
\* const outName = `${baseName}.${ext}`;
\* hasFile: currentFile is not null; name: its name
outName(hasFile, name, outType) ==
  LET baseName == IF hasFile /\ name # <<>> THEN StripExt(name) ELSE FallbackBase
  IN  baseName \o <<".">> \o mimeToExt(outType)


(***************************************************************************)
(* The files the user can pick or drop.  A names an 8x6 picture, B a wide  *)
(* flat one with no extension in its name, C a file declared an image      *)
(* whose data no decoder accepts, T a text file.                           *)
(***************************************************************************)
NoFile == "none"
FileIds == {"A", "B", "C", "T"}

File ==
  [A |-> [name |-> <<"a", ".", "p">>, isImage |-> TRUE,  decodes |-> TRUE,  w |-> 8,  h |-> 6],
   B |-> [name |-> <<"b">>,           isImage |-> TRUE,  decodes |-> TRUE,  w |-> 12, h |-> 1],
   C |-> [name |-> <<"c", ".", "j">>, isImage |-> TRUE,  decodes |-> FALSE, w |-> 0,  h |-> 0],
   T |-> [name |-> <<"t", ".", "x">>, isImage |-> FALSE, decodes |-> FALSE, w |-> 0,  h |-> 0]]

\* what the user can have in the form's controls when clicking Convert
ClickFormats == {"image/webp"}
ClickQualities == {<<"8", "0">>}
ClickWidths == {<<>>, <<"4">>}

(***************************************************************************)
(* Status messages: showMessage(text, isError).                            *)
(***************************************************************************)
Msg(kind, isError, name, w, h) ==
  [kind |-> kind, isError |-> isError, name |-> name, w |-> w, h |-> h]

NoMsg          == Msg("", FALSE, <<>>, 0, 0)
InvalidMsg     == Msg("Please upload a valid image file.", TRUE, <<>>, 0, 0)
ReadFailedMsg  == Msg("Failed to read file.", TRUE, <<>>, 0, 0)
ChooseMsg      == Msg("Choose or drop an image first.", TRUE, <<>>, 0, 0)
NotReadyMsg    == Msg("Image not ready yet. Wait a moment and try again.", TRUE, <<>>, 0, 0)
DrawErrorMsg   == Msg("Error drawing image to canvas: ", TRUE, <<>>, 0, 0)
BlobEmptyMsg   == Msg("Conversion failed (blob is empty).", TRUE, <<>>, 0, 0)
ConvFailedMsg  == Msg("Conversion failed: ", TRUE, <<>>, 0, 0)
TempFailedMsg  == Msg("Failed to load image for conversion.", TRUE, <<>>, 0, 0)
ProcessingMsg  == Msg("Processing...", FALSE, <<>>, 0, 0)
LoadedMsg(name, w, h) == Msg("Loaded: ", FALSE, name, w, h)
ConvertedMsg(name)    == Msg("Converted: ", FALSE, name, 0, 0)

(***************************************************************************)
(* The state of the page.                                                  *)
(***************************************************************************)
VARIABLES
  currentFile,   \* let currentFile: a file, or NoFile for null
  imgSrc,        \* previewImg.src: the file its URL holds, NoFile for ''
  imgCur,        \* the file whose decoded picture previewImg holds (its
                 \* current request is completely available), or NoFile:
                 \* naturalWidth and naturalHeight are 0
  imgLoading,    \* the file previewImg is fetching and decoding, or NoFile:
                 \* previewImg.complete is false while there is one
  imgBroken,     \* previewImg's current request is in the broken state
  imgOnload,     \* previewImg.onload: the file of the closure, or NoFile
  imgLoadQueued, \* a load event of previewImg is queued as a task
  decodingLatest,\* the request in imgLoading was started by the read of the
                 \* most recently accepted file
  reads,         \* the FileReaders reading
  latestRead,    \* how the read of the most recently accepted file stands:
                 \* "pending", "done" or "failed"; "none" with no file accepted
  status,        \* message.textContent and its colour
  canvas,        \* hiddenCanvas: width, height, and the file drawn on it
  hasToBlob,     \* whether the platform's canvas has toBlob
  objectUrls,    \* the object URLs created and not revoked
  nEvents,       \* user events so far
  nConv,         \* convert clicks so far
  conv,          \* per convert click, what that conversion did
  temps,         \* the temporary images loading
  encodes,       \* the toBlob calls whose callback has not run
  last,          \* what the step just taken did
  pin,           \* input of the function applied in isolation
  pout           \* and its result

pageVars == <<currentFile, imgSrc, imgCur, imgLoading, imgBroken, imgOnload,
              imgLoadQueued, decodingLatest, reads, latestRead, status, canvas, hasToBlob, objectUrls, nEvents, nConv, conv,
              temps, encodes, last>>
pureVars == <<pin, pout>>
vars == <<currentFile, imgSrc, imgCur, imgLoading, imgBroken, imgOnload,
          imgLoadQueued, decodingLatest, reads, latestRead, status, canvas, hasToBlob, objectUrls, nEvents, nConv, conv,
          temps, encodes, last, pin, pout>>

NoInput == [op |-> "none", text |-> <<>>, w |-> 0, h |-> 0, hasFile |-> FALSE, mime |-> ""]
NoOutput == [done |-> FALSE, n |-> 0, w |-> 0, h |-> 0, name |-> <<>>]

\* What a step did, for the properties below: whether it was a convert click
\* and whether the latest load was then under way, the error message it
\* showed, and the download it triggered (its name, the file of its pixels).
Quiet ==
  [click |-> FALSE, pending |-> FALSE, error |-> NoMsg,
   downloaded |-> FALSE, dlName |-> <<>>, dlPix |-> NoFile]

\* previewImg.naturalWidth, previewImg.naturalHeight
naturalWidth == IF imgCur = NoFile THEN 0 ELSE File[imgCur].w
naturalHeight == IF imgCur = NoFile THEN 0 ELSE File[imgCur].h
\* previewImg.complete
complete == imgLoading = NoFile

\* The read or the decode of the most recently accepted file is under way.
LatestPending ==
  \/ \E r \in reads : r.latest
  \/ imgLoading # NoFile /\ decodingLatest

PageInit ==
  /\ currentFile = NoFile
  /\ imgSrc = NoFile
  /\ imgCur = NoFile
  /\ imgLoading = NoFile
  /\ imgBroken = FALSE
  /\ imgOnload = NoFile
  /\ imgLoadQueued = FALSE
  /\ decodingLatest = FALSE
  /\ reads = {}
  /\ latestRead = "none"
  /\ status = NoMsg
  \* no step reads the canvas before a click has set its size
  /\ canvas = [w |-> 0, h |-> 0, pix |-> NoFile]
  /\ objectUrls = {}
  /\ nEvents = 0
  /\ nConv = 0
  /\ conv = <<>>
  /\ temps = {}
  /\ encodes = {}
  /\ last = Quiet

Init ==
  /\ PageInit
  /\ hasToBlob \in BOOLEAN
  /\ pin = NoInput
  /\ pout = NoOutput


(***************************************************************************)
(* The loader.                                                             *)
(***************************************************************************)
\* a variant that takes any file
AcceptsAnyType(f) == TRUE

\* file.type.startsWith('image/')
AcceptsType(f) == File[f].isImage

\* function loadFile(file), called by the file input's change handler and by
\* the drop handler; the FileReader it starts is kept with the loaded state
\* the call found
loadFile(f) ==
  /\ nEvents < MaxEvents
  /\ IF ~AcceptsType(f)
     THEN /\ status' = InvalidMsg
          /\ last' = [Quiet EXCEPT !.error = InvalidMsg]
          /\ UNCHANGED <<currentFile, reads, latestRead>>
     ELSE /\ currentFile' = f
          /\ reads' = {[r EXCEPT !.latest = FALSE] : r \in reads}
                        \cup {[file |-> f, latest |-> TRUE,
                               beforeFile |-> currentFile, beforeImg |-> imgCur]}
          /\ latestRead' = "pending"
          /\ last' = Quiet
          /\ UNCHANGED status
  /\ UNCHANGED <<imgSrc, imgCur, imgLoading, imgBroken, imgOnload, imgLoadQueued, decodingLatest, canvas, hasToBlob, objectUrls, nConv, conv, temps, encodes>>
  /\ nEvents' = nEvents + 1
  /\ UNCHANGED pureVars

\* reader.onload: previewImg.src = reader.result starts the fetch and decode
\* of the new picture (the picture shown stays until that ends), and
\* previewImg.onload is replaced
ReaderOnload(r) ==
  /\ r \in reads
  /\ reads' = reads \ {r}
  /\ latestRead' = IF r.latest THEN "done" ELSE latestRead
  /\ imgSrc' = r.file
  /\ imgLoading' = r.file
  /\ imgBroken' = FALSE
  /\ imgOnload' = r.file
  /\ decodingLatest' = r.latest
  /\ last' = Quiet
  /\ UNCHANGED <<currentFile, imgCur, imgLoadQueued, status, canvas, hasToBlob, objectUrls, nConv, conv, temps, encodes>>
  /\ UNCHANGED nEvents
  /\ UNCHANGED pureVars

\* reader.onerror
ReaderOnerror(r) ==
  /\ r \in reads
  /\ reads' = reads \ {r}
  /\ latestRead' = IF r.latest THEN "failed" ELSE latestRead
  /\ status' = ReadFailedMsg
  /\ last' = [Quiet EXCEPT !.error = ReadFailedMsg]
  /\ UNCHANGED <<currentFile, imgSrc, imgCur, imgLoading, imgBroken, imgOnload, imgLoadQueued, decodingLatest, canvas, hasToBlob, objectUrls, nConv, conv, temps, encodes>>
  /\ UNCHANGED nEvents
  /\ UNCHANGED pureVars

\* previewImg.onload, the closure of the read of file f, run with picture cur shown
OnloadStatus(f, cur) ==
  IF f = NoFile THEN status
  ELSE LoadedMsg(File[f].name,
                 IF cur = NoFile THEN 0 ELSE File[cur].w,
                 IF cur = NoFile THEN 0 ELSE File[cur].h)

\* the preview's decode ends well: the picture is shown and the load event
\* runs previewImg.onload
ImgLoaded ==
  /\ imgLoading # NoFile
  /\ File[imgLoading].decodes
  /\ imgCur' = imgLoading
  /\ imgLoading' = NoFile
  /\ imgBroken' = FALSE
  /\ decodingLatest' = FALSE
  /\ status' = OnloadStatus(imgOnload, imgLoading)
  /\ last' = Quiet
  /\ UNCHANGED <<currentFile, imgSrc, imgOnload, imgLoadQueued, reads, canvas, hasToBlob, objectUrls, nConv, conv, temps, encodes>>
  /\ UNCHANGED nEvents
  /\ UNCHANGED latestRead
  /\ UNCHANGED pureVars

\* the preview's decode fails: previewImg has no error handler
ImgError ==
  /\ imgLoading # NoFile
  /\ ~File[imgLoading].decodes
  /\ imgCur' = NoFile
  /\ imgLoading' = NoFile
  /\ imgBroken' = TRUE
  /\ decodingLatest' = FALSE
  /\ last' = Quiet
  /\ UNCHANGED <<currentFile, imgSrc, imgOnload, imgLoadQueued, reads, status, canvas, hasToBlob, objectUrls, nConv, conv, temps, encodes>>
  /\ UNCHANGED nEvents
  /\ UNCHANGED latestRead
  /\ UNCHANGED pureVars

\* the load event queued when temp.onload set previewImg.src to a picture the
\* document already held
PreviewLoadEvent ==
  /\ imgLoadQueued
  /\ imgLoadQueued' = FALSE
  /\ status' = OnloadStatus(imgOnload, imgCur)
  /\ last' = Quiet
  /\ UNCHANGED <<currentFile, imgSrc, imgCur, imgLoading, imgBroken, imgOnload, decodingLatest, reads, canvas, hasToBlob, objectUrls, nConv, conv, temps, encodes>>
  /\ UNCHANGED nEvents
  /\ UNCHANGED latestRead
  /\ UNCHANGED pureVars

\* resetBtn's click handler; a FileReader still reading is not stopped
Reset ==
  /\ nEvents < MaxEvents
  /\ currentFile' = NoFile
  /\ imgSrc' = NoFile
  /\ imgCur' = NoFile
  /\ imgLoading' = NoFile
  /\ imgBroken' = TRUE
  /\ decodingLatest' = FALSE
  /\ reads' = {[r EXCEPT !.latest = FALSE] : r \in reads}
  /\ latestRead' = "none"
  /\ status' = NoMsg
  /\ last' = Quiet
  /\ UNCHANGED <<imgOnload, imgLoadQueued, canvas, hasToBlob, objectUrls, nConv, conv, temps, encodes>>
  /\ nEvents' = nEvents + 1
  /\ UNCHANGED pureVars


(***************************************************************************)
(* The converter.                                                          *)
(***************************************************************************)
\* what one convert click has done so far: the natural size it read, the
\* states it went through, how often it started the temporary image, drew,
\* called the encoder and triggered a download, and what the encoder gave
NewConv ==
  [natW |-> 0, natH |-> 0, trace |-> <<>>,
   temps |-> 0, draws |-> 0, encs |-> 0, downloads |-> 0, blob |-> "none"]

\* formatSelect.value || 'image/png'
OutType(selected) == IF selected = "" THEN "image/png" ELSE selected

\* if (!naturalW || !naturalH)
NotReady(naturalW, naturalH) == naturalW = 0 \/ naturalH = 0

\* imgElement is never given a source
imgElementNaturalWidth == 0
imgElementNaturalHeight == 0

\* canvas.toBlob gives null, and canvas.toDataURL gives "data:,", for a
\* canvas with no pixels
NoPixels(cnv) == cnv.w = 0 \/ cnv.h = 0

\* what ctx.drawImage(previewImg, ...) finds: a picture, or an image in the
\* broken state (it throws), or one not yet available (it draws nothing)
DrawSource(cur, broken) ==
  IF cur # NoFile THEN cur ELSE IF broken THEN "broken" ELSE "unavailable"

\* triggerDownload(blob): the name is derived from currentFile as it is when
\* the download is triggered
DownloadName(outType) ==
  outName(currentFile # NoFile,
          IF currentFile # NoFile THEN File[currentFile].name ELSE <<>>,
          outType)

\* a variant that leaves the URL alive
RevokeNothing(urls, url) == urls

\* URL.revokeObjectURL(url)
revokeObjectURL(urls, url) == urls \ {url}

\* URL.createObjectURL(...) for conversion c: the URL of the blob to download,
\* or the URL of currentFile given to the temporary image
createObjectURL(c, use) == [cid |-> c, use |-> use]

\* the object URLs alive once triggerDownload(blob) of conversion c has run:
\* it creates one, has the anchor clicked, and revokes it
TriggerDownloadUrls(c) ==
  LET url == createObjectURL(c, "download")
  IN  revokeObjectURL(objectUrls \cup {url}, url)

\* The closure drawImage of conversion c, run on conversions cv and canvas
\* cnv: the conversions, canvas and pending encodes it leaves, the message
\* it shows if any, and the download it triggers if any.
DrawImage(c, cv, cnv, outType, quality, source) ==
  LET drawn == [cv[c] EXCEPT !.draws = @ + 1]
      pix   == IF source \in FileIds /\ ~NoPixels(cnv) THEN source ELSE NoFile
      name  == DownloadName(outType)
      none  == [conv |-> cv, canvas |-> [cnv EXCEPT !.pix = pix], encodes |-> encodes,
                urls |-> objectUrls,
                shown |-> FALSE, status |-> NoMsg, error |-> NoMsg,
                downloaded |-> FALSE, dlName |-> <<>>, dlPix |-> NoFile]
  IN  IF source = "broken"
      THEN \* catch (err) { showMessage('Error drawing image to canvas: ' ...); return; }
           [none EXCEPT
              !.conv = [cv EXCEPT ![c] =
                          [drawn EXCEPT !.trace = @ \o <<"Resampling", "Failed">>]],
              !.canvas = cnv,
              !.shown = TRUE, !.status = DrawErrorMsg, !.error = DrawErrorMsg]
      ELSE IF hasToBlob
      THEN \* canvas.toBlob(callback, outType, blobQuality)
           [none EXCEPT
              !.conv = [cv EXCEPT ![c] =
                          [drawn EXCEPT !.encs = @ + 1, !.blob = "pending",
                                        !.trace = @ \o <<"Resampling", "Encoding">>]],
              !.encodes = encodes \cup
                          {[cid |-> c, outType |-> outType, q |-> blobQuality(quality),
                            pix |-> pix, w |-> cnv.w, h |-> cnv.h]}]
      ELSE IF NoPixels(cnv)
      THEN \* dataURLtoBlob("data:,") throws: arr[0].match(/:(.*?);/) is null
           [none EXCEPT
              !.conv = [cv EXCEPT ![c] =
                          [drawn EXCEPT !.encs = @ + 1, !.blob = "empty",
                                        !.trace = @ \o <<"Resampling", "Encoding", "Failed">>]],
              !.shown = TRUE, !.status = ConvFailedMsg, !.error = ConvFailedMsg]
      ELSE \* triggerDownload(dataURLtoBlob(canvas.toDataURL(outType, blobQuality)))
           [none EXCEPT
              !.conv = [cv EXCEPT ![c] =
                          [drawn EXCEPT !.encs = @ + 1, !.blob = "ok",
                                        !.downloads = @ + 1,
                                        !.trace = @ \o <<"Resampling", "Encoding", "Done">>]],
              !.urls = TriggerDownloadUrls(c),
              !.shown = TRUE, !.status = ConvertedMsg(name),
              !.downloaded = TRUE, !.dlName = name, !.dlPix = pix]

\* convertBtn's click handler, with what the form's controls hold
ConvertClick(selected, qualityText, widthText) ==
  LET c        == nConv + 1
      outType  == OutType(selected)
      quality  == NormalizeQuality(qualityText)
      naturalW == IF naturalWidth # 0 THEN naturalWidth ELSE imgElementNaturalWidth
      naturalH == IF naturalHeight # 0 THEN naturalHeight ELSE imgElementNaturalHeight
      dims     == TargetDims(widthText, naturalW, naturalH)
      cnv      == [w |-> dims.w, h |-> dims.h, pix |-> NoFile]
      checked  == [NewConv EXCEPT !.natW = naturalW, !.natH = naturalH,
                                  !.trace = <<"CheckingReadiness">>]
      res      == DrawImage(c, Append(conv, checked), cnv, outType, quality,
                            DrawSource(imgCur, imgBroken))
      tsrc     == IF imgSrc # NoFile THEN imgSrc ELSE currentFile
      step     == [Quiet EXCEPT !.click = TRUE, !.pending = LatestPending]
  IN
  /\ nEvents < MaxEvents
  /\ nConv' = c
  /\ IF currentFile = NoFile /\ imgSrc = NoFile
     THEN \* showMessage('Choose or drop an image first.', true); return;
          /\ status' = ChooseMsg
          /\ conv' = Append(conv, [NewConv EXCEPT !.trace = <<"Failed">>])
          /\ last' = [step EXCEPT !.error = ChooseMsg]
          /\ UNCHANGED <<canvas, temps, encodes, objectUrls>>
     ELSE IF NotReady(naturalW, naturalH)
     THEN \* showMessage('Image not ready yet. ...', true); return;
          /\ status' = NotReadyMsg
          /\ conv' = Append(conv, [NewConv EXCEPT !.trace = <<"CheckingReadiness", "Failed">>])
          /\ last' = [step EXCEPT !.error = NotReadyMsg]
          /\ UNCHANGED <<canvas, temps, encodes, objectUrls>>
     ELSE IF complete /\ naturalWidth # 0
     THEN \* drawImage(); showMessage('Processing...');
          /\ status' = ProcessingMsg
          /\ conv' = res.conv
          /\ canvas' = res.canvas
          /\ encodes' = res.encodes
          /\ objectUrls' = res.urls
          /\ last' = [step EXCEPT !.error = res.error, !.downloaded = res.downloaded,
                                  !.dlName = res.dlName, !.dlPix = res.dlPix]
          /\ UNCHANGED temps
     ELSE IF tsrc = NoFile
     THEN \* URL.createObjectURL(null) throws and ends the handler
          /\ conv' = Append(conv, checked)
          /\ canvas' = cnv
          /\ last' = step
          /\ UNCHANGED <<status, temps, encodes, objectUrls>>
     ELSE \* temp.src = previewImg.src || URL.createObjectURL(currentFile);
          \* showMessage('Processing...');
          /\ status' = ProcessingMsg
          /\ conv' = Append(conv, [checked EXCEPT !.temps = @ + 1])
          /\ canvas' = cnv
          /\ temps' = temps \cup {[cid |-> c, src |-> tsrc, outType |-> outType,
                                   quality |-> quality]}
          /\ objectUrls' = IF imgSrc # NoFile THEN objectUrls
                           ELSE objectUrls \cup {createObjectURL(c, "temp")}
          /\ last' = step
          /\ UNCHANGED encodes
  /\ UNCHANGED <<currentFile, imgSrc, imgCur, imgLoading, imgBroken, imgOnload, imgLoadQueued, decodingLatest, reads, hasToBlob>>
  /\ nEvents' = nEvents + 1
  /\ UNCHANGED latestRead
  /\ UNCHANGED pureVars

\* temp.onload: previewImg.src = temp.src; drawImage().  When the document
\* still holds the picture temp has just loaded (cached), previewImg shows it
\* at once and a load event is queued; otherwise previewImg starts to load it
\* and drawImage finds previewImg as it was.
TempOnload(t, cached) ==
  LET source == IF cached THEN t.src ELSE DrawSource(imgCur, imgBroken)
      res    == DrawImage(t.cid, conv, canvas, t.outType, t.quality, source)
  IN
  /\ t \in temps
  /\ File[t.src].decodes
  /\ temps' = temps \ {t}
  /\ imgSrc' = t.src
  /\ IF cached
     THEN /\ imgCur' = t.src
          /\ imgLoading' = NoFile
          /\ imgLoadQueued' = TRUE
          /\ decodingLatest' = FALSE
     ELSE /\ imgLoading' = t.src
          /\ decodingLatest' = (decodingLatest /\ imgLoading = t.src)
          /\ UNCHANGED <<imgCur, imgLoadQueued>>
  /\ imgBroken' = FALSE
  /\ conv' = res.conv
  /\ canvas' = res.canvas
  /\ encodes' = res.encodes
  /\ objectUrls' = res.urls
  /\ status' = IF res.shown THEN res.status ELSE status
  /\ last' = [Quiet EXCEPT !.error = res.error,
                                        !.downloaded = res.downloaded,
                                        !.dlName = res.dlName, !.dlPix = res.dlPix]
  /\ UNCHANGED <<currentFile, imgOnload, reads, hasToBlob, nConv>>
  /\ UNCHANGED nEvents
  /\ UNCHANGED latestRead
  /\ UNCHANGED pureVars

\* a variant in which a temporary image that cannot be decoded fires nothing
TempFailsNever(t) == FALSE

\* the load of the temporary image ends with an error event
TempFails(t) == ~File[t.src].decodes

\* temp.onerror
TempOnerror(t) ==
  /\ t \in temps
  /\ TempFails(t)
  /\ temps' = temps \ {t}
  /\ status' = TempFailedMsg
  /\ conv' = [conv EXCEPT ![t.cid].trace = @ \o <<"Failed">>]
  /\ last' = [Quiet EXCEPT !.error = TempFailedMsg]
  /\ UNCHANGED <<currentFile, imgSrc, imgCur, imgLoading, imgBroken, imgOnload, imgLoadQueued, decodingLatest, reads, canvas, hasToBlob, objectUrls, nConv, encodes>>
  /\ UNCHANGED nEvents
  /\ UNCHANGED latestRead
  /\ UNCHANGED pureVars

\* if (!blob) in the callback given to canvas.toBlob
\* (a variant that never takes the early return)
RejectsNever(blobIsNull) == FALSE
RejectsBlob(blobIsNull) == blobIsNull

\* the callback given to canvas.toBlob; the blob is null when the canvas had
\* no pixels
ToBlobCallback(e) ==
  LET name == DownloadName(e.outType)
      blobIsNull == e.w = 0 \/ e.h = 0
  IN
  /\ e \in encodes
  /\ encodes' = encodes \ {e}
  /\ IF RejectsBlob(blobIsNull)
     THEN \* if (!blob) { showMessage('Conversion failed (blob is empty).', true); return; }
          /\ status' = BlobEmptyMsg
          /\ conv' = [conv EXCEPT ![e.cid].blob = "empty",
                                  ![e.cid].trace = @ \o <<"Failed">>]
          /\ last' = [Quiet EXCEPT !.error = BlobEmptyMsg]
          /\ UNCHANGED objectUrls
     ELSE \* triggerDownload(blob)
          /\ status' = ConvertedMsg(name)
          /\ conv' = [conv EXCEPT ![e.cid].blob = IF blobIsNull THEN "empty" ELSE "ok",
                                  ![e.cid].downloads = @ + 1,
                                  ![e.cid].trace = @ \o <<"Done">>]
          /\ objectUrls' = TriggerDownloadUrls(e.cid)
          /\ last' = [Quiet EXCEPT !.downloaded = TRUE, !.dlName = name,
                                   !.dlPix = e.pix]
  /\ UNCHANGED <<currentFile, imgSrc, imgCur, imgLoading, imgBroken, imgOnload, imgLoadQueued, decodingLatest, reads, canvas, hasToBlob, nConv, temps>>
  /\ UNCHANGED nEvents
  /\ UNCHANGED latestRead
  /\ UNCHANGED pureVars

Next ==
  \/ \E f \in FileIds : loadFile(f)
  \/ \E r \in reads : ReaderOnload(r)
  \/ \E r \in reads : ReaderOnerror(r)
  \/ ImgLoaded
  \/ ImgError
  \/ PreviewLoadEvent
  \/ Reset
  \/ \E sel \in ClickFormats, q \in ClickQualities, w \in ClickWidths :
        ConvertClick(sel, q, w)
  \/ \E t \in temps, cached \in BOOLEAN : TempOnload(t, cached)
  \/ \E t \in temps : TempOnerror(t)
  \/ \E e \in encodes : ToBlobCallback(e)

Spec == Init /\ [][Next]_vars

\* The browser runs every callback it owes: a temporary image that has been
\* given a source fires load or error, and canvas.toBlob calls its callback.
\* Nothing obliges the user to click or the FileReader to finish.
Callbacks ==
  \/ \E t \in temps, cached \in BOOLEAN : TempOnload(t, cached)
  \/ \E t \in temps : TempOnerror(t)
  \/ \E e \in encodes : ToBlobCallback(e)

SpecFair == Spec /\ WF_vars(Callbacks)


(***************************************************************************)
(* The functions of the converter applied in isolation, to every input of  *)
(* a bounded set: the quality normalisation, the dimension resolution and  *)
(* the file name derivation.                                               *)
(***************************************************************************)
QualityChars == {"-", "0", "1", "9", "x"}
WidthChars == {"-", "0", "1", "4", "x"}
NameChars == {"a", "b", "."}
Formats == {"image/jpeg", "image/png", "image/webp", "image/gif", ""}

QualityInputs ==
  {[NoInput EXCEPT !.op = "quality", !.text = t] :
     t \in SeqsUpTo(QualityChars, MaxQualityLen)}

DimInputs ==
  {[NoInput EXCEPT !.op = "dims", !.text = t, !.w = w, !.h = h] :
     t \in SeqsUpTo(WidthChars, MaxWidthLen), w \in 1..MaxNatW, h \in 1..MaxNatH}

NameInputs ==
  {[NoInput EXCEPT !.op = "name", !.hasFile = TRUE, !.text = t, !.mime = m] :
     t \in SeqsUpTo(NameChars, MaxNameLen), m \in Formats}
  \cup {[NoInput EXCEPT !.op = "name", !.mime = m] : m \in Formats}

PureInit ==
  /\ PageInit
  /\ hasToBlob = TRUE
  /\ pin \in QualityInputs \cup DimInputs \cup NameInputs
  /\ pout = NoOutput

\* lines 93-95 and 130 of the click handler
QualityStep ==
  /\ pin.op = "quality"
  /\ ~pout.done
  /\ pout' = [NoOutput EXCEPT !.done = TRUE,
                              !.n = blobQuality(NormalizeQuality(pin.text))]
  /\ UNCHANGED <<pageVars, pin>>

\* lines 98 and 106-111 of the click handler
DimsStep ==
  /\ pin.op = "dims"
  /\ ~pout.done
  /\ pout' = [NoOutput EXCEPT !.done = TRUE,
                              !.w = TargetDims(pin.text, pin.w, pin.h).w,
                              !.h = TargetDims(pin.text, pin.w, pin.h).h]
  /\ UNCHANGED <<pageVars, pin>>

\* lines 170-172 of triggerDownload
NameStep ==
  /\ pin.op = "name"
  /\ ~pout.done
  /\ pout' = [NoOutput EXCEPT !.done = TRUE,
                              !.name = outName(pin.hasFile, pin.text, pin.mime)]
  /\ UNCHANGED <<pageVars, pin>>

PureNext == QualityStep \/ DimsStep \/ NameStep

SpecPure == PureInit /\ [][PureNext]_vars


(***************************************************************************)
(* Properties.                                                             *)
(***************************************************************************)
\* C1: a convert click made while the read or decode of the most recently
\* accepted file is still under way, the preview showing no picture or the
\* picture of an earlier file, ends in NotReady: the status is the not-ready
\* message, the click has drawn nothing, and it has left no temporary image
\* or encode that could trigger a download later.
C1_PendingLoadGivesNotReady ==
  (last.click /\ last.pending /\ imgCur # currentFile) =>
     /\ status = NotReadyMsg
     /\ conv[nConv].trace = <<"CheckingReadiness", "Failed">>
     /\ conv[nConv].downloads = 0
     /\ \A t \in temps : t.cid # nConv
     /\ \A e \in encodes : e.cid # nConv

\* C2: when reader.onerror runs, currentFile and the picture in the preview
\* are the ones the loadFile call that started the read found, and the
\* status is the read-failure message.
C2_ReadFailureKeepsLoadedState ==
  [][\A r \in reads :
        ReaderOnerror(r) =>
           /\ currentFile' = r.beforeFile
           /\ imgCur' = r.beforeImg
           /\ status' = ReadFailedMsg]_vars

\* C3: when a step has shown an error message (invalid input, read failure,
\* not ready, render failure, encode failure), that message is the status
\* once the step has ended.
C3_FailureStaysVisible ==
  last.error # NoMsg => status = last.error

\* C4: the normalised quality is 100 for an input above 100, 1 for an input
\* below 1, the input itself in between, 90 for an input that is no number,
\* and always lies in 1..100.
C4_QualityClampedToNearestBound ==
  (pin.op = "quality" /\ pout.done) =>
     LET q == parseInt(pin.text)
     IN  /\ pout.n \in 1..100
         /\ pout.n = IF q.nan THEN 90
                     ELSE IF q.val > 100 THEN 100
                     ELSE IF q.val < 1 THEN 1
                     ELSE q.val

\* C5: for a requested width w with 0 < w < naturalW the target width is w
\* and the target height is naturalH * w / naturalW rounded to the nearest
\* integer (a half rounded up, or to the even neighbour), which is within
\* one pixel of the exact proportion.
C5_HeightIsRoundedProportion ==
  LET rw == parseInt(pin.text)
  IN  (pin.op = "dims" /\ pout.done /\ ~rw.nan /\ 0 < rw.val /\ rw.val < pin.w) =>
        LET twice  == 2 * pin.h * rw.val
            halfUp == (twice + pin.w) \div (2 * pin.w)
            isTie  == twice % (2 * pin.w) = pin.w
            halfEven == IF isTie /\ halfUp % 2 = 1 THEN halfUp - 1 ELSE halfUp
        IN  /\ pout.w = rw.val
            /\ pout.h \in {halfUp, halfEven}
            /\ pout.h * pin.w - pin.h * rw.val <= pin.w
            /\ pin.h * rw.val - pout.h * pin.w <= pin.w

\* C6: for a requested width that is absent, not a number, zero, negative or
\* at least naturalW, the target dimensions are the natural ones.
C6_NaturalSizeKept ==
  LET rw == parseInt(pin.text)
  IN  (pin.op = "dims" /\ pout.done /\ (rw.nan \/ rw.val <= 0 \/ rw.val >= pin.w)) =>
        (pout.w = pin.w /\ pout.h = pin.h)

C6_Witness ==
  /\ pin.op = "dims" /\ pout.done
  /\ pin.text = <<"4", "4">> /\ pin.w = 8 /\ pin.h = 6
  /\ pout.w = 8 /\ pout.h = 6

\* C7: the download name is the file name without its last ".ext" segment
\* (the whole name when it has none, "converted-image" when there is no file
\* or its name is empty), then ".", then jpg, png, webp or img by format.
C7_DownloadNameDerived ==
  (pin.op = "name" /\ pout.done) =>
     LET name == pin.text
         dots == {i \in 1..Len(name) : name[i] = "."}
         lastDot == IF dots = {} THEN 0 ELSE CHOOSE i \in dots : \A j \in dots : j <= i
         stem == IF lastDot = 0 \/ lastDot = Len(name) THEN name
                 ELSE SubSeq(name, 1, lastDot - 1)
         base == IF ~pin.hasFile \/ name = <<>>
                 THEN <<"c", "o", "n", "v", "e", "r", "t", "e", "d", "-",
                        "i", "m", "a", "g", "e">>
                 ELSE stem
         ext  == IF pin.mime = "image/jpeg" THEN <<"j", "p", "g">>
                 ELSE IF pin.mime = "image/png" THEN <<"p", "n", "g">>
                 ELSE IF pin.mime = "image/webp" THEN <<"w", "e", "b", "p">>
                 ELSE <<"i", "m", "g">>
     IN  pout.name = base \o <<".">> \o ext

C7_Witness ==
  /\ pin.op = "name" /\ pout.done /\ pin.hasFile
  /\ pin.text = <<"a", ".", "b">> /\ pin.mime = "image/webp"
  /\ pout.name = <<"a", ".", "w", "e", "b", "p">>

\* C8: loadFile on a file whose type is not an image type shows the
\* invalid-input error, leaves currentFile and the preview image as they
\* were, and starts no read.
C8_RejectedLoadChangesNothing ==
  [][\A f \in FileIds :
        (~File[f].isImage /\ loadFile(f)) =>
           /\ status' = InvalidMsg
           /\ UNCHANGED <<currentFile, imgSrc, imgCur, imgLoading, imgBroken, reads>>]_vars

C8_Witness ==
  /\ status = InvalidMsg
  /\ currentFile = "A" /\ imgCur = "A" /\ reads = {}

\* C9: when a step has triggered a download, the status once the step has
\* ended is "Converted: <name>", on the toBlob path and on the toDataURL
\* path alike.
C9_ConvertedIsTheStatus ==
  last.downloaded => status = ConvertedMsg(last.dlName)

\* C10: every conversion goes through CheckingReadiness, Resampling,
\* Encoding, Done in this order, leaving it only by Failed; it has triggered
\* a download only if it read a natural size of at least 1x1, drew, and got a
\* non-empty result from the encoder; a failed conversion has no download.
ConversionOrder == <<"CheckingReadiness", "Resampling", "Encoding", "Done">>

C10_DownloadOnlyAfterEveryStage ==
  \A c \in 1..nConv :
     LET t == conv[c].trace
         failed == t # <<>> /\ t[Len(t)] = "Failed"
         stages == IF failed THEN SubSeq(t, 1, Len(t) - 1) ELSE t
     IN  /\ Len(stages) <= Len(ConversionOrder)
         /\ stages = SubSeq(ConversionOrder, 1, Len(stages))
         /\ failed => (Len(stages) < Len(ConversionOrder) /\ conv[c].downloads = 0)
         /\ conv[c].downloads > 0 <=> t = ConversionOrder
         /\ conv[c].downloads > 0 =>
               /\ conv[c].natW >= 1 /\ conv[c].natH >= 1
               /\ conv[c].draws >= 1
               /\ conv[c].blob = "ok"

C10_Witness ==
  \E c \in 1..nConv :
     /\ conv[c].trace = ConversionOrder
     /\ conv[c].downloads = 1
     /\ \E d \in 1..nConv : conv[d].trace = <<"CheckingReadiness", "Resampling", "Encoding", "Failed">>

\* C11: provided the temporary image's load or error event and the toBlob
\* callback are eventually delivered, every conversion that has passed the
\* readiness check eventually is Done (it has triggered its download) or
\* Failed (it has shown an error message); none stays in CheckingReadiness,
\* Resampling or Encoding for ever.  A conversion that has ended stays ended,
\* so this is: again and again, every conversion that passed has ended.
Passed(c) ==
  /\ c <= nConv
  /\ conv[c].trace # <<>> /\ conv[c].trace[1] = "CheckingReadiness"
  /\ ~NotReady(conv[c].natW, conv[c].natH)

Ended(c) ==
  /\ c <= nConv
  /\ LET t == conv[c].trace
     IN  \/ t[Len(t)] = "Done" /\ conv[c].downloads = 1
         \/ t[Len(t)] = "Failed"

C11_ConversionEnds ==
  []<>(\A c \in 1..nConv : Passed(c) => Ended(c))

\* a conversion that waited for the temporary image and for the encoder
C11_Witness ==
  \E c \in 1..nConv :
     /\ conv[c].temps = 1
     /\ Passed(c)
     /\ conv[c].trace = ConversionOrder
     /\ conv[c].downloads = 1

\* C12: per convert click the temporary image is started at most once,
\* drawImage runs at most once, the encoder is called at most once and at
\* most one download is triggered; a click that drew at once starts no
\* temporary image; and once a step has ended, no object URL created for a
\* download is alive.
C12_OnceEachAndUrlsRevoked ==
  /\ \A c \in 1..nConv :
        /\ conv[c].temps <= 1
        /\ conv[c].draws <= 1
        /\ conv[c].encs <= conv[c].draws
        /\ conv[c].downloads <= conv[c].encs
        /\ \A t \in temps : t.cid = c => (conv[c].temps = 1 /\ conv[c].draws = 0)
        /\ Cardinality({t \in temps : t.cid = c}) <= 1
        /\ Cardinality({e \in encodes : e.cid = c}) <= 1
        /\ \A e \in encodes : e.cid = c => (conv[c].encs = 1 /\ conv[c].downloads = 0)
  /\ \A u \in objectUrls : u.use # "download"

\* a step has just triggered a download, and a conversion that waited for
\* the temporary image has drawn, encoded and downloaded once
C12_Witness ==
  /\ last.downloaded
  /\ objectUrls = {}
  /\ \E c \in 1..nConv :
        conv[c].temps = 1 /\ conv[c].draws = 1 /\ conv[c].encs = 1 /\ conv[c].downloads = 1

\* C13: a step in which a conversion fails (no image chosen, not ready,
\* drawing failed, encoding failed, temporary image failed) changes neither
\* currentFile nor the file the preview is set to show.
ConversionFailures ==
  {ChooseMsg, NotReadyMsg, DrawErrorMsg, BlobEmptyMsg, ConvFailedMsg, TempFailedMsg}

C13_FailureKeepsLoadedState ==
  [][last'.error \in ConversionFailures =>
        (currentFile' = currentFile /\ imgSrc' = imgSrc)]_vars

\* C14: for every natural size and every text in the width field, the
\* target width is at most naturalW and the target height at most naturalH.
C14_NeverUpscaled ==
  (pin.op = "dims" /\ pout.done) => (pout.w <= pin.w /\ pout.h <= pin.h)

C14_Witness ==
  /\ pin.op = "dims" /\ pout.done
  /\ pin.text = <<"1", "4">> /\ pin.w = 22 /\ pin.h = 15
  /\ pout.w = 14 /\ pout.h = 10

\* C15: once no read and no decode is pending, the read of the most recently
\* accepted file having succeeded and that file being a picture, the picture
\* in the preview is that of currentFile.
Quiescent == reads = {} /\ imgLoading = NoFile /\ temps = {}

C15_PreviewIsCurrentFile ==
  (Quiescent /\ latestRead = "done" /\ File[currentFile].decodes) =>
     imgCur = currentFile

\* C16: when a step has triggered a download of a canvas on which a file's
\* picture was drawn, the download's name is the one derived from that file.
C16_NamedAfterPixels ==
  (last.downloaded /\ last.dlPix # NoFile) =>
     \E sel \in ClickFormats :
        last.dlName = outName(TRUE, File[last.dlPix].name, OutType(sel))

\* C17: a convert click made with no file accepted since the last reset (or
\* since the page was opened) reports "Choose or drop an image first." and
\* starts nothing that could trigger a download.
C17_ResetDiscardsFile ==
  (last.click /\ latestRead = "none") =>
     /\ status = ChooseMsg
     /\ ~last.downloaded
     /\ \A t \in temps : t.cid # nConv
     /\ \A e \in encodes : e.cid # nConv

\* C18: for every natural size of at least 1x1 and every text in the width
\* field, the target width and the target height are at least 1.
C18_NeverZeroSize ==
  (pin.op = "dims" /\ pout.done /\ pin.w >= 1 /\ pin.h >= 1) =>
     (pout.w >= 1 /\ pout.h >= 1)

=============================================================================
